---- MODULE Spec2Model ----
(***************************************************************************)
(* Quad: the grid/block engine (js/app/block.js), the score/level state    *)
(* machine (js/app/score.js) and the move gate (app/controls).             *)
(*                                                                         *)
(* Three state machines share this module, one specification each:         *)
(*   Spec         the Block API called in any order on a few blocks        *)
(*   SpecClear    boards seeded block by block, then Block.clear           *)
(*   SpecScore    Score.update                                             *)
(*   SpecControls controls.update and its cooldown timers                  *)
(***************************************************************************)
EXTENDS Integers, Sequences, FiniteSets, TLC

(***************************************************************************)
(* Bounds of the model.                                                    *)
(***************************************************************************)
\* grid.contents has GridH rows of GridW cells (app/grid is not in src/)
GridW == 2
GridH == 5
\* Block objects available to SpecClear
NumBlocks == 5
\* Block objects available to Spec
LifeBlocks == 2
\* calls of Block.drop / Block.positionAt in one run of Spec
MaxDrops == 2
\* calls of Block.slide in one run of Spec
MaxSlides == 1
\* how many blocks a behaviour of SpecDrop drops
MaxFallers == 4
\* how many callbacks callers register on one block
MaxCallbacks == 1

VARIABLES
    contents,   \* grid.contents: cell <<x, y>> -> block or Undefined
    color,      \* Block.color, NoColor before the constructor has run
    coord,      \* Block.coord: <<x, y>>, NoCoord while the field is undefined
    visible,    \* Block.visible
    falling,    \* Block.falling (undefined is falsy: FALSE)
    tweens,     \* drop tweens started for the block and not yet complete
    drops,      \* drop / positionAt calls made so far
    slides,     \* slide calls made so far
    onDropComplete, \* Block.onDropComplete: the callbacks, in registration order
    last        \* the call that produced this state and its outcome

blockVars == <<contents, color, coord, visible, falling, tweens, drops, slides,
               onDropComplete, last>>

VARIABLES
    points,     \* config.points: the exponent of each level, 1-indexed by level + 1
    current,    \* Score.current
    level,      \* Score.level
    board,      \* Score.board.text: <<level displayed, score displayed>>
    effects,    \* the calls newLevel() made during the last update()
    clearCount  \* the argument of the last update(), NoUpdate before the first

scoreVars == <<points, current, level, board, effects, clearCount>>

VARIABLES
    rotating,     \* controls.rotating
    shifting,     \* controls.shifting
    rotTimers,    \* pending setTimeout callbacks that reset rotating
    shiftTimers,  \* pending setTimeout callbacks that reset shifting
    fallingQuads, \* generator.fallingQuads.length
    winIntents,   \* rotate intents since the rotating gate was last open
    winRotations, \* rotations since the rotating gate was last open
    tick          \* the last update(): keys down, calls made, whether it threw

ctlVars == <<rotating, shifting, rotTimers, shiftTimers, fallingQuads,
             winIntents, winRotations, tick>>

vars == <<blockVars, scoreVars, ctlVars>>

(***************************************************************************)
(* Values                                                                  *)
(***************************************************************************)
Undefined == 0
Blocks == 1..NumBlocks
Cols == 0..(GridW - 1)
Rows == 0..(GridH - 1)
Coords == Cols \X Rows
NoCoord == << >>
NoColor == "unconstructed"
\* config.color.unbreakable
unbreakable == "unbreakable"
\* the color argument of the constructor; "none" is a missing or falsy one
ColorArgs == {"none", "red"}
\* the coordinates Spec drops blocks to: the first two rows of the grid
DropCoords == {c \in Coords : c[2] <= 1}
Directions == {"top", "bottom", "left", "right", "LEFT", "up"}

\* row-major index of a cell
Idx(c) == c[2] * GridW + c[1]

\* String.prototype.toLowerCase on the directions used
toLowerCase(d) == IF d = "LEFT" THEN "left" ELSE d

(***************************************************************************)
(* grid.contents[y][x]: a row outside the array is undefined, and reading  *)
(* or writing a cell of it throws; a column outside a row reads undefined. *)
(***************************************************************************)
HasRow(y) == y \in Rows

At(cont, x, y) == IF x \in Cols THEN cont[<<x, y>>] ELSE Undefined

\* grid.contents[y][x] = v, for a row that exists
Put(cont, x, y, v) == IF x \in Cols THEN [cont EXCEPT ![<<x, y>>] = v] ELSE cont

(***************************************************************************)
(* Block.prototype.clear                                                   *)
(***************************************************************************)
matchingColor(col, this, block) ==
    block # Undefined /\ col[block] = col[this]

\* "true", "false", or "throw" when a row read is out of range
checkForClear(cont, col, this, cx, cy) ==
    IF ~HasRow(cy) THEN "throw"
    ELSE IF ~matchingColor(col, this, At(cont, cx, cy)) THEN "false"
    ELSE IF ~HasRow(cy + 1) THEN "throw"
    ELSE IF ~matchingColor(col, this, At(cont, cx, cy + 1)) THEN "false"
    ELSE IF ~matchingColor(col, this, At(cont, cx + 1, cy)) THEN "false"
    ELSE IF matchingColor(col, this, At(cont, cx + 1, cy + 1)) THEN "true"
    ELSE "false"

\* a || b on the three outcomes: b is evaluated only when a is false
OrElse(a, b) == IF a = "false" THEN b ELSE a

doClear(cont, col, crd, this) ==
    LET x == crd[this][1]
        y == crd[this][2]
    IN  OrElse(checkForClear(cont, col, this, x, y),
        OrElse(checkForClear(cont, col, this, x - 1, y),
        OrElse(checkForClear(cont, col, this, x, y - 1),
               checkForClear(cont, col, this, x - 1, y - 1))))

\* the state of one clear(): the grid, the destroyed array, whether it has
\* thrown, and the calls of eraseBlocks that found their block in destroyed
NoErase(cont) ==
    [contents |-> cont, destroyed |-> << >>, err |-> FALSE, revisits |-> 0]

\* destroy leaving the slot as it is
destroyKeepsSlot(st, crd, b) ==
    IF crd[b] = NoCoord \/ ~HasRow(crd[b][2])
    THEN [st EXCEPT !.err = TRUE]
    ELSE st

\* Block.prototype.destroy on block b, within the state st of a clear()
destroy(st, crd, b) ==
    IF crd[b] = NoCoord \/ ~HasRow(crd[b][2])
    THEN [st EXCEPT !.err = TRUE]
    ELSE [st EXCEPT !.contents = Put(st.contents, crd[b][1], crd[b][2], Undefined)]

RECURSIVE eraseBlocks(_, _, _, _, _)

\* one "if (matchingColor(neighbour)) eraseBlocks(neighbour)" of eraseBlocks
eraseNeighbour(st, col, crd, this, x, y) ==
    IF st.err THEN st
    ELSE IF ~HasRow(y) THEN [st EXCEPT !.err = TRUE]
    ELSE IF matchingColor(col, this, At(st.contents, x, y))
         THEN eraseBlocks(st, col, crd, this, At(st.contents, x, y))
         ELSE st

\* eraseBlocks without its last branch, the neighbour on the left
eraseBlocksNoLeft(st, col, crd, this, block) ==
    IF \E i \in 1..Len(st.destroyed) : st.destroyed[i] = block
    THEN [st EXCEPT !.revisits = @ + 1]
    ELSE
      LET d  == destroy(st, crd, block)
          x  == crd[block][1]
          y  == crd[block][2]
          s0 == IF d.err THEN d
                ELSE [d EXCEPT !.destroyed = Append(d.destroyed, block)]
          s1 == eraseNeighbour(s0, col, crd, this, x, y + 1)
          s2 == eraseNeighbour(s1, col, crd, this, x, y - 1)
      IN  eraseNeighbour(s2, col, crd, this, x + 1, y)

eraseBlocks(st, col, crd, this, block) ==
    IF \E i \in 1..Len(st.destroyed) : st.destroyed[i] = block
    THEN [st EXCEPT !.revisits = @ + 1]
    ELSE
      LET d  == destroy(st, crd, block)
          x  == crd[block][1]
          y  == crd[block][2]
          s0 == IF d.err THEN d
                ELSE [d EXCEPT !.destroyed = Append(d.destroyed, block)]
          s1 == eraseNeighbour(s0, col, crd, this, x, y + 1)
          s2 == eraseNeighbour(s1, col, crd, this, x, y - 1)
          s3 == eraseNeighbour(s2, col, crd, this, x + 1, y)
      IN  eraseNeighbour(s3, col, crd, this, x - 1, y)

\* clear() that returns at once for a block with no coord
clearSkipsUnplaced(cont, col, crd, this) ==
    LET st == NoErase(cont)
    IN  IF crd[this] = NoCoord THEN st
        ELSE LET d == doClear(cont, col, crd, this)
             IN  IF d = "throw" THEN [st EXCEPT !.err = TRUE]
                 ELSE IF d = "true" THEN eraseBlocks(st, col, crd, this, this)
                 ELSE st

\* the whole of clear(): [contents, destroyed, err, revisits]
clear(cont, col, crd, this) ==
    LET st == NoErase(cont)
    IN  IF crd[this] = NoCoord THEN [st EXCEPT !.err = TRUE]
        ELSE LET d == doClear(cont, col, crd, this)
             IN  IF d = "throw" THEN [st EXCEPT !.err = TRUE]
                 ELSE IF d = "true" THEN eraseBlocks(st, col, crd, this, this)
                 ELSE st

(***************************************************************************)
(* The state after construction: an empty grid and no Block yet.           *)
(***************************************************************************)
NoCall == [op |-> "init", b |-> Undefined, c |-> NoCoord, err |-> FALSE,
           destroyed |-> << >>, d |-> "", revisits |-> 0, ran |-> << >>]

BlockInit ==
    /\ contents = [c \in Coords |-> Undefined]
    /\ color = [b \in Blocks |-> NoColor]
    /\ coord = [b \in Blocks |-> NoCoord]
    /\ visible = [b \in Blocks |-> FALSE]
    /\ falling = [b \in Blocks |-> FALSE]
    /\ tweens = [b \in Blocks |-> 0]
    /\ drops = 0
    /\ slides = 0
    /\ onDropComplete = [b \in Blocks |-> << >>]
    /\ last = NoCall

Constructed(b) == color[b] # NoColor

\* the next Block object to be constructed
Fresh(b) == ~Constructed(b) /\ \A a \in Blocks : a < b => Constructed(a)

(***************************************************************************)
(* new Block(game, direction, position, offset, color)                     *)
(***************************************************************************)
Block(b, arg) ==
    /\ Fresh(b)
    /\ b <= LifeBlocks
    /\ color' = [color EXCEPT ![b] = IF arg = "none" THEN unbreakable ELSE arg]
    /\ onDropComplete' = [onDropComplete EXCEPT ![b] = <<"clear">>]
    /\ last' = [NoCall EXCEPT !.op = "new", !.b = b]
    /\ UNCHANGED <<contents, coord, visible, falling, tweens, drops, slides>>
    /\ UNCHANGED <<scoreVars, ctlVars>>

(***************************************************************************)
(* Block.prototype.display                                                 *)
(***************************************************************************)
display(b) ==
    /\ Constructed(b)
    /\ visible' = [visible EXCEPT ![b] = TRUE]
    /\ falling' = [falling EXCEPT ![b] = FALSE]
    /\ last' = [NoCall EXCEPT !.op = "display", !.b = b]
    /\ UNCHANGED <<contents, color, coord, tweens, drops, slides, onDropComplete>>
    /\ UNCHANGED <<scoreVars, ctlVars>>

(***************************************************************************)
(* Block.prototype.drop(coord, noAnimate): the slot is written first, the  *)
(* tween is started next, the coord field is set last, all in one call.    *)
(***************************************************************************)
animated(b, noAnimate) == ~noAnimate /\ visible[b]

\* drop leaving the registration to the end of the animation
dropContentsDeferred(b, c) == contents

dropContents(b, c) == [contents EXCEPT ![c] = b]

\* the body of drop, on everything but the count of calls
dropBody(b, c, noAnimate) ==
    /\ contents' = dropContents(b, c)
    /\ falling' = [falling EXCEPT ![b] = IF animated(b, noAnimate) THEN TRUE ELSE @]
    /\ tweens' = [tweens EXCEPT ![b] = IF animated(b, noAnimate) THEN @ + 1 ELSE @]
    /\ coord' = [coord EXCEPT ![b] = c]
    /\ last' = [NoCall EXCEPT !.op = "drop", !.b = b, !.c = c]
    /\ UNCHANGED <<color, visible, slides, onDropComplete>>
    /\ UNCHANGED <<scoreVars, ctlVars>>

drop(b, c, noAnimate) ==
    /\ Constructed(b)
    /\ b <= LifeBlocks
    /\ drops < MaxDrops
    /\ drops' = drops + 1
    /\ dropBody(b, c, noAnimate)

(***************************************************************************)
(* Block.prototype.positionAt: drop(coord, true), then display() when the  *)
(* block is visible.                                                       *)
(***************************************************************************)
positionAt(b, c) ==
    /\ Constructed(b)
    /\ b <= LifeBlocks
    /\ drops < MaxDrops
    /\ drops' = drops + 1
    /\ contents' = dropContents(b, c)
    /\ coord' = [coord EXCEPT ![b] = c]
    /\ falling' = [falling EXCEPT ![b] = IF visible[b] THEN FALSE ELSE @]
    /\ last' = [NoCall EXCEPT !.op = "positionAt", !.b = b, !.c = c]
    /\ UNCHANGED <<color, visible, tweens, slides, onDropComplete>>
    /\ UNCHANGED <<scoreVars, ctlVars>>

(***************************************************************************)
(* Block.prototype.slide                                                   *)
(***************************************************************************)
\* the switch of slide with the y axis pointing the other way
slideCoordUpsideDown(c, direction) ==
    CASE toLowerCase(direction) = "top"    -> <<c[1], c[2] + 1>>
      [] toLowerCase(direction) = "bottom" -> <<c[1], c[2] - 1>>
      [] toLowerCase(direction) = "left"   -> <<c[1] - 1, c[2]>>
      [] toLowerCase(direction) = "right"  -> <<c[1] + 1, c[2]>>
      [] OTHER -> c

slideCoord(c, direction) ==
    CASE toLowerCase(direction) = "top"    -> <<c[1], c[2] - 1>>
      [] toLowerCase(direction) = "bottom" -> <<c[1], c[2] + 1>>
      [] toLowerCase(direction) = "left"   -> <<c[1] - 1, c[2]>>
      [] toLowerCase(direction) = "right"  -> <<c[1] + 1, c[2]>>
      [] OTHER -> c

validDirection(direction) ==
    toLowerCase(direction) \in {"top", "bottom", "left", "right"}

slide(b, direction) ==
    /\ Constructed(b)
    /\ slides < MaxSlides
    /\ slides' = slides + 1
    /\ LET throws == ~validDirection(direction) \/ coord[b] = NoCoord
       IN  /\ coord' = IF throws THEN coord
                       ELSE [coord EXCEPT ![b] = slideCoord(@, direction)]
           /\ last' = [NoCall EXCEPT !.op = "slide", !.b = b, !.err = throws,
                                     !.d = direction]
    /\ UNCHANGED <<contents, color, visible, falling, tweens, drops, onDropComplete>>
    /\ UNCHANGED <<scoreVars, ctlVars>>

(***************************************************************************)
(* Block.prototype.clear, called directly                                  *)
(***************************************************************************)
Clear(b) ==
    /\ Constructed(b)
    /\ LET r == clear(contents, color, coord, b)
       IN  /\ contents' = r.contents
           /\ last' = [NoCall EXCEPT !.op = "clear", !.b = b, !.err = r.err,
                                     !.destroyed = r.destroyed,
                                     !.revisits = r.revisits]
    /\ UNCHANGED <<color, coord, visible, falling, tweens, drops, slides,
                   onDropComplete>>
    /\ UNCHANGED <<scoreVars, ctlVars>>

(***************************************************************************)
(* Block.prototype.destroy, called directly                                *)
(***************************************************************************)
Destroy(b) ==
    /\ Constructed(b)
    /\ LET r == destroy(NoErase(contents), coord, b)
       IN  /\ contents' = r.contents
           /\ last' = [NoCall EXCEPT !.op = "destroy", !.b = b, !.err = r.err]
    /\ UNCHANGED <<color, coord, visible, falling, tweens, drops, slides,
                   onDropComplete>>
    /\ UNCHANGED <<scoreVars, ctlVars>>

(***************************************************************************)
(* Block.prototype.unbreakable                                             *)
(***************************************************************************)
Unbreakable(b) ==
    /\ Constructed(b)
    /\ color' = [color EXCEPT ![b] = unbreakable]
    /\ falling' = [falling EXCEPT ![b] = IF visible[b] THEN FALSE ELSE @]
    /\ last' = [NoCall EXCEPT !.op = "unbreakable", !.b = b]
    /\ UNCHANGED <<contents, coord, visible, tweens, drops, slides, onDropComplete>>
    /\ UNCHANGED <<scoreVars, ctlVars>>

(***************************************************************************)
(* tween.onComplete of a drop: falling = false, then the onDropComplete    *)
(* callbacks, of which the constructor registers clear().                  *)
(***************************************************************************)
\* one callback of onDropComplete, called with the block's falling flag at
\* fell: clear() is the block's own, any other callback is a caller's and
\* only looks at the grid.  rs is the state of the map() so far.
callback(rs, cb, b, fell) ==
    LET call == [cb |-> cb, falling |-> fell, seen |-> rs.contents]
    IN  IF cb = "clear"
        THEN LET r == clear(rs.contents, color, coord, b)
             IN  [contents |-> r.contents, destroyed |-> r.destroyed, err |-> r.err,
                  revisits |-> r.revisits, ran |-> Append(rs.ran, call)]
        ELSE [rs EXCEPT !.ran = Append(rs.ran, call)]

\* this.onDropComplete.map(...): a callback that throws ends the map
RECURSIVE runCallbacks(_, _, _, _, _)
runCallbacks(rs, cbs, i, b, fell) ==
    IF i > Len(cbs) \/ rs.err THEN rs
    ELSE runCallbacks(callback(rs, cbs[i], b, fell), cbs, i + 1, b, fell)

onComplete(b) ==
    /\ tweens[b] > 0
    /\ tweens' = [tweens EXCEPT ![b] = @ - 1]
    /\ falling' = [falling EXCEPT ![b] = FALSE]
    /\ LET r == runCallbacks([contents |-> contents, destroyed |-> << >>,
                              err |-> FALSE, revisits |-> 0, ran |-> << >>],
                             onDropComplete[b], 1, b, falling'[b])
       IN  /\ contents' = r.contents
           /\ last' = [NoCall EXCEPT !.op = "onComplete", !.b = b, !.err = r.err,
                                     !.destroyed = r.destroyed,
                                     !.revisits = r.revisits, !.ran = r.ran]
    /\ UNCHANGED <<color, coord, visible, drops, slides, onDropComplete>>
    /\ UNCHANGED <<scoreVars, ctlVars>>

(***************************************************************************)
(* Score (js/app/score.js).  app/config is not in src/: the checkpoints    *)
(* are those of the specification's scenario, and the table of exponents   *)
(* is drawn by the initial state, one exponent for every level.            *)
(***************************************************************************)
checkpoints == <<100, 300, 600>>
NumLevels == Len(checkpoints)
Exponents == {1, 2}
ClearCounts == {0, 25, 50, 60, 250}
\* update() is not called once the score would pass MaxScore
MaxScore == 700

\* Math.pow on a natural base and exponent; Math.floor of it is the value itself
RECURSIVE pow(_, _)
pow(n, e) == IF e = 0 THEN 1 ELSE n * pow(n, e - 1)

\* addPoints with "=" written for "+="
addPointsAssigned(cur, lvl, n) == pow(n, points[lvl + 1])

\* this.current += Math.floor(Math.pow(clearCount, config.points[this.level]))
addPoints(cur, lvl, n) == cur + pow(n, points[lvl + 1])

\* the for loop of calcLevel, from index i down to 0
RECURSIVE calcLevelFrom(_, _, _)
calcLevelFrom(cur, lvl, i) ==
    IF i < 0 THEN lvl
    ELSE IF cur >= checkpoints[i + 1] THEN i + 1
    ELSE calcLevelFrom(cur, lvl, i - 1)

\* calcLevel scanning the checkpoints upwards: the first one reached wins
calcLevelAscending(cur, lvl) ==
    IF \E i \in 1..Len(checkpoints) : cur >= checkpoints[i] THEN 1 ELSE lvl

calcLevel(cur, lvl) == calcLevelFrom(cur, lvl, Len(checkpoints) - 1)

\* "background" + (this.level + 1)
trackName(n) ==
    CASE n = 1 -> "background1"
      [] n = 2 -> "background2"
      [] n = 3 -> "background3"
      [] n = 4 -> "background4"
      [] OTHER -> "background"

Call(name, n, s) == [call |-> name, n |-> n, s |-> s]

\* newLevel resetting the grid before it notifies generator, music and background
newLevelResetFirst(lvl) ==
    << Call("centerQuad.breakable", 0, ""),
       Call("grid.clearAll", 0, ""),
       Call("grid.resetMiddle", 0, ""),
       Call("generator.setLevel", lvl, ""),
       Call("music.play", 0, trackName(lvl + 1)),
       Call("background.newColor", lvl, "config.color.available[level][0]"),
       Call("centerQuad.redraw", 0, ""),
       Call("centerQuad.toCenter", 0, ""),
       Call("centerQuad.unbreakable", 0, "") >>

\* the calls of Score.prototype.newLevel, in the order it makes them
newLevel(lvl) ==
    << Call("generator.setLevel", lvl, ""),
       Call("music.play", 0, trackName(lvl + 1)),
       Call("background.newColor", lvl, "config.color.available[level][0]"),
       Call("centerQuad.breakable", 0, ""),
       Call("grid.clearAll", 0, ""),
       Call("grid.resetMiddle", 0, ""),
       Call("centerQuad.redraw", 0, ""),
       Call("centerQuad.toCenter", 0, ""),
       Call("centerQuad.unbreakable", 0, "") >>

\* the state after new Score() and init()
ScoreStart ==
    /\ current = 0
    /\ level = 0
    /\ board = <<1, 0>>
    /\ effects = << >>
    /\ clearCount = << >>

ScoreInit ==
    /\ points \in [1..(NumLevels + 1) -> Exponents]
    /\ ScoreStart

ScoreIdle ==
    /\ points = [i \in 1..(NumLevels + 1) |-> 1]
    /\ ScoreStart

(***************************************************************************)
(* Score.prototype.update(clearCount)                                      *)
(***************************************************************************)
update(n) ==
    /\ addPoints(current, level, n) <= MaxScore
    /\ current' = addPoints(current, level, n)
    /\ board' = <<level + 1, current'>>
    /\ LET newL == calcLevel(current', level)
       IN  IF level < newL
           THEN level' = newL /\ effects' = newLevel(newL)
           ELSE level' = level /\ effects' = << >>
    /\ clearCount' = <<n>>
    /\ UNCHANGED points
    /\ UNCHANGED <<blockVars, ctlVars>>

(***************************************************************************)
(* controls (app/controls).  The generator and the grid are collaborators  *)
(* outside src/: a call of theirs returns or throws, generator.drop() may  *)
(* start a quad falling, and a falling quad lands at some later time.      *)
(***************************************************************************)
Keys == {"LEFT", "RIGHT", "W", "S", "A", "D", "SPACEBAR"}
\* pending cooldown timers of one gate the model keeps apart
MaxTimers == 2
\* rotate intents counted in one cooldown window
MaxIntents == 3
\* quads falling at once
MaxFalling == 1

\* the sets of keys that are down in one tick: none, one, or two at once
KeySets == {k \in SUBSET Keys : Cardinality(k) <= 2}

NoTick == [keys |-> {}, calls |-> << >>, thrown |-> FALSE, seq |-> 0]

ControlsInit ==
    /\ rotating = FALSE
    /\ shifting = FALSE
    /\ rotTimers = 0
    /\ shiftTimers = 0
    /\ fallingQuads = 0
    /\ winIntents = 0
    /\ winRotations = 0
    /\ tick = NoTick

\* a gate that is never consulted
gateIgnored(gate) == TRUE

\* "!controls.rotating", "!controls.shifting"
gateOpen(gate) == ~gate

\* the else-if chain with shifts that do not look at generator.fallingQuads
branchShiftWhileFalling(keys) ==
    IF gateOpen(rotating) /\ "LEFT" \in keys THEN "generator.rotateCCW"
    ELSE IF gateOpen(rotating) /\ "RIGHT" \in keys THEN "generator.rotateCW"
    ELSE IF gateOpen(shifting) /\ "W" \in keys THEN "grid.slideUp"
    ELSE IF gateOpen(shifting) /\ "S" \in keys THEN "grid.slideDown"
    ELSE IF gateOpen(shifting) /\ "A" \in keys THEN "grid.slideLeft"
    ELSE IF gateOpen(shifting) /\ "D" \in keys THEN "grid.slideRight"
    ELSE IF "SPACEBAR" \in keys THEN "generator.drop"
    ELSE "none"

\* the else-if chain with a drop branch behind the shifting gate
branchDropGated(keys) ==
    IF gateOpen(rotating) /\ "LEFT" \in keys THEN "generator.rotateCCW"
    ELSE IF gateOpen(rotating) /\ "RIGHT" \in keys THEN "generator.rotateCW"
    ELSE IF gateOpen(shifting) /\ "W" \in keys /\ fallingQuads = 0 THEN "grid.slideUp"
    ELSE IF gateOpen(shifting) /\ "S" \in keys /\ fallingQuads = 0 THEN "grid.slideDown"
    ELSE IF gateOpen(shifting) /\ "A" \in keys /\ fallingQuads = 0 THEN "grid.slideLeft"
    ELSE IF gateOpen(shifting) /\ "D" \in keys /\ fallingQuads = 0 THEN "grid.slideRight"
    ELSE IF gateOpen(shifting) /\ "SPACEBAR" \in keys THEN "generator.drop"
    ELSE "none"

\* the branch of the else-if chain that update() takes
branch(keys) ==
    IF gateOpen(rotating) /\ "LEFT" \in keys THEN "generator.rotateCCW"
    ELSE IF gateOpen(rotating) /\ "RIGHT" \in keys THEN "generator.rotateCW"
    ELSE IF gateOpen(shifting) /\ "W" \in keys /\ fallingQuads = 0 THEN "grid.slideUp"
    ELSE IF gateOpen(shifting) /\ "S" \in keys /\ fallingQuads = 0 THEN "grid.slideDown"
    ELSE IF gateOpen(shifting) /\ "A" \in keys /\ fallingQuads = 0 THEN "grid.slideLeft"
    ELSE IF gateOpen(shifting) /\ "D" \in keys /\ fallingQuads = 0 THEN "grid.slideRight"
    ELSE IF "SPACEBAR" \in keys THEN "generator.drop"
    ELSE "none"

Rotation(br) == br \in {"generator.rotateCCW", "generator.rotateCW"}
Shift(br) == br \in {"grid.slideUp", "grid.slideDown", "grid.slideLeft", "grid.slideRight"}
RotateIntent(keys) == "LEFT" \in keys \/ "RIGHT" \in keys

\* update() with a drop branch that does not call postMove
callsOfDropSilent(br, returns) ==
    IF br = "none" THEN <<"generator.highlightPath">>
    ELSE IF ~returns THEN <<"generator.highlightPath", br>>
    ELSE IF br = "generator.drop"
         THEN <<"generator.highlightPath", br>>
         ELSE <<"generator.highlightPath", br, "setTimeout", "controls.postMove">>

\* the calls update() makes on branch br, up to the one that throws
callsOf(br, returns) ==
    IF br = "none" THEN <<"generator.highlightPath">>
    ELSE IF ~returns THEN <<"generator.highlightPath", br>>
    ELSE IF br = "generator.drop"
         THEN <<"generator.highlightPath", br, "controls.postMove">>
         ELSE <<"generator.highlightPath", br, "setTimeout", "controls.postMove">>

Bump(n, max) == IF n < max THEN n + 1 ELSE n

(***************************************************************************)
(* controls.update(game): keys are the keys that are down, returns tells   *)
(* whether the generator or grid call returns, starts whether              *)
(* generator.drop() leaves one more quad falling.                          *)
(***************************************************************************)
Update(keys, returns, starts) ==
    LET br == branch(keys)
    IN  /\ br = "none" => returns
        /\ starts => (br = "generator.drop" /\ returns)
        /\ Rotation(br) /\ returns => rotTimers < MaxTimers
        /\ Shift(br) /\ returns => shiftTimers < MaxTimers
        /\ rotating' = IF Rotation(br) THEN TRUE ELSE rotating
        /\ shifting' = IF Shift(br) THEN TRUE ELSE shifting
        /\ rotTimers' = IF Rotation(br) /\ returns THEN rotTimers + 1 ELSE rotTimers
        /\ shiftTimers' = IF Shift(br) /\ returns THEN shiftTimers + 1 ELSE shiftTimers
        /\ fallingQuads' = IF br = "generator.drop" /\ returns /\ starts
                           THEN Bump(fallingQuads, MaxFalling) ELSE fallingQuads
        /\ winIntents' = IF Rotation(br)
                         THEN (IF rotating THEN Bump(winIntents, MaxIntents) ELSE 1)
                         ELSE IF RotateIntent(keys) /\ rotating
                              THEN Bump(winIntents, MaxIntents) ELSE winIntents
        /\ winRotations' = IF Rotation(br)
                           THEN (IF rotating THEN Bump(winRotations, MaxIntents) ELSE 1)
                           ELSE winRotations
        /\ tick' = [keys |-> keys, calls |-> callsOf(br, returns),
                    thrown |-> (br # "none" /\ ~returns), seq |-> 1 - tick.seq]
        /\ UNCHANGED <<blockVars, scoreVars>>

\* a timer callback that leaves controls.rotating as it is
rotatingTimeoutKeepsGate ==
    /\ rotTimers > 0
    /\ rotTimers' = rotTimers - 1
    /\ winIntents' = 0
    /\ winRotations' = 0
    /\ UNCHANGED <<rotating, shifting, shiftTimers, fallingQuads, tick>>
    /\ UNCHANGED <<blockVars, scoreVars>>

\* setTimeout(function(){ controls.rotating = false; }, 100) fires
rotatingTimeout ==
    /\ rotTimers > 0
    /\ rotTimers' = rotTimers - 1
    /\ rotating' = FALSE
    /\ winIntents' = 0
    /\ winRotations' = 0
    /\ UNCHANGED <<shifting, shiftTimers, fallingQuads, tick>>
    /\ UNCHANGED <<blockVars, scoreVars>>

\* setTimeout(function(){ controls.shifting = false; }, 100) fires
shiftingTimeout ==
    /\ shiftTimers > 0
    /\ shiftTimers' = shiftTimers - 1
    /\ shifting' = FALSE
    /\ UNCHANGED <<rotating, rotTimers, fallingQuads, winIntents, winRotations, tick>>
    /\ UNCHANGED <<blockVars, scoreVars>>

\* a falling quad lands: generator.fallingQuads loses it
quadLands ==
    /\ fallingQuads > 0
    /\ fallingQuads' = fallingQuads - 1
    /\ UNCHANGED <<rotating, shifting, rotTimers, shiftTimers, winIntents,
                   winRotations, tick>>
    /\ UNCHANGED <<blockVars, scoreVars>>

Init == BlockInit /\ ScoreIdle /\ ControlsInit

Next ==
    \/ \E b \in Blocks, arg \in ColorArgs : Block(b, arg)
    \/ \E b \in Blocks : display(b)
    \/ \E b \in Blocks, c \in DropCoords, noAnimate \in BOOLEAN : drop(b, c, noAnimate)
    \/ \E b \in Blocks, c \in DropCoords : positionAt(b, c)
    \/ \E b \in Blocks, d \in Directions : slide(b, d)
    \/ \E b \in Blocks : Clear(b)
    \/ \E b \in Blocks : Destroy(b)
    \/ \E b \in Blocks : Unbreakable(b)
    \/ \E b \in Blocks : onComplete(b)

Spec == Init /\ [][Next]_vars

(***************************************************************************)
(* SpecClear: a board is seeded block by block, in row-major order of the  *)
(* cells (new Block(..., color).positionAt(coord) on a block that was not  *)
(* displayed), and clear() is called on any block of it.                   *)
(***************************************************************************)
Seed(b, c, arg) ==
    /\ Fresh(b)
    /\ IF b = 1 THEN TRUE ELSE Idx(c) > Idx(coord[b - 1])
    /\ color' = [color EXCEPT ![b] = IF arg = "none" THEN unbreakable ELSE arg]
    /\ contents' = dropContents(b, c)
    /\ coord' = [coord EXCEPT ![b] = c]
    /\ onDropComplete' = [onDropComplete EXCEPT ![b] = <<"clear">>]
    /\ last' = [NoCall EXCEPT !.op = "positionAt", !.b = b, !.c = c]
    /\ UNCHANGED <<visible, falling, tweens, drops, slides>>
    /\ UNCHANGED <<scoreVars, ctlVars>>

NextClear ==
    \/ \E b \in Blocks, c \in Coords, arg \in ColorArgs : Seed(b, c, arg)
    \/ \E b \in Blocks : Clear(b)

SpecClear == Init /\ [][NextClear]_vars

(***************************************************************************)
(* SpecScore: any sequence of Score.update calls, under any table of       *)
(* exponents.                                                              *)
(***************************************************************************)
NextScore == \E n \in ClearCounts : update(n)

InitScore == BlockInit /\ ScoreInit /\ ControlsInit

SpecScore == InitScore /\ [][NextScore]_vars

(***************************************************************************)
(* SpecControls: update ticks with any keys down, the two cooldown timers, *)
(* and quads landing.                                                      *)
(***************************************************************************)
NextControls ==
    \/ \E keys \in KeySets, returns \in BOOLEAN, starts \in BOOLEAN :
          Update(keys, returns, starts)
    \/ rotatingTimeout
    \/ shiftingTimeout
    \/ quadLands

SpecControls == Init /\ [][NextControls]_vars

(***************************************************************************)
(* SpecDrop: blocks are constructed and displayed one after the other,     *)
(* callers may register a callback of their own on a block that has not    *)
(* been dropped, each block is dropped once, animated, onto a free cell of *)
(* the first rows (in row-major order of the cells), and the tweens        *)
(* complete in any order.                                                  *)
(***************************************************************************)
DropArea == {c \in Coords : c[2] <= 2}

\* new Block(game, direction, position, offset, color).display()
Stage(b, arg) ==
    /\ Fresh(b)
    /\ b <= MaxFallers
    /\ color' = [color EXCEPT ![b] = IF arg = "none" THEN unbreakable ELSE arg]
    /\ onDropComplete' = [onDropComplete EXCEPT ![b] = <<"clear">>]
    /\ visible' = [visible EXCEPT ![b] = TRUE]
    /\ falling' = [falling EXCEPT ![b] = FALSE]
    /\ last' = [NoCall EXCEPT !.op = "display", !.b = b]
    /\ UNCHANGED <<contents, coord, tweens, drops, slides>>
    /\ UNCHANGED <<scoreVars, ctlVars>>

\* block.onDropComplete.push(callback), by a caller
register(b) ==
    /\ Constructed(b)
    /\ coord[b] = NoCoord
    /\ Len(onDropComplete[b]) < 1 + MaxCallbacks
    /\ onDropComplete' = [onDropComplete EXCEPT ![b] = Append(@, "callback")]
    /\ last' = [NoCall EXCEPT !.op = "register", !.b = b]
    /\ UNCHANGED <<contents, color, coord, visible, falling, tweens, drops, slides>>
    /\ UNCHANGED <<scoreVars, ctlVars>>

\* block.drop(c) on a displayed block: the drop is animated
Fall(b, c) ==
    /\ Constructed(b)
    /\ visible[b]
    /\ coord[b] = NoCoord
    /\ IF b = 1 THEN TRUE
       ELSE coord[b - 1] # NoCoord /\ Idx(c) > Idx(coord[b - 1])
    /\ dropBody(b, c, FALSE)
    /\ UNCHANGED drops

NextDrop ==
    \/ \E b \in Blocks, arg \in ColorArgs : Stage(b, arg)
    \/ \E b \in Blocks : register(b)
    \/ \E b \in Blocks, c \in DropArea : Fall(b, c)
    \/ \E b \in Blocks : onComplete(b)

SpecDrop == Init /\ [][NextDrop]_vars

(***************************************************************************)
(* SpecGates: the update ticks of SpecControls in which every call of the  *)
(* generator and the grid returns; a timer that is pending fires.          *)
(***************************************************************************)
NextGates ==
    \/ \E keys \in KeySets, starts \in BOOLEAN : Update(keys, TRUE, starts)
    \/ rotatingTimeout
    \/ shiftingTimeout
    \/ quadLands

SpecGates ==
    /\ Init
    /\ [][NextGates]_vars
    /\ WF_vars(rotatingTimeout)
    /\ WF_vars(shiftingTimeout)

(***************************************************************************)
(* What the claims speak of, stated on the grid itself.                    *)
(***************************************************************************)
\* block b is referenced by some slot of the grid cont
InGrid(cont, b) == \E c \in Coords : cont[c] = b

\* block b is placed: the slot at its coord holds it
Placed(b) == coord[b] \in Coords /\ contents[coord[b]] = b

\* cell c holds a block of b's color
Matches(c, b) ==
    c \in Coords /\ contents[c] # Undefined /\ color[contents[c]] = color[b]

\* the 2x2 square whose bottom-left corner, in the source's words, is o
SquareCells(o) ==
    {o, <<o[1] + 1, o[2]>>, <<o[1], o[2] + 1>>, <<o[1] + 1, o[2] + 1>>}

\* the four squares that have b's cell as a corner
CandidateSquares(b) ==
    {<<coord[b][1], coord[b][2]>>, <<coord[b][1] - 1, coord[b][2]>>,
     <<coord[b][1], coord[b][2] - 1>>, <<coord[b][1] - 1, coord[b][2] - 1>>}

\* b is a corner of a square of four blocks of its color
SameColorSquare(b) ==
    \E o \in CandidateSquares(b) : \A c \in SquareCells(o) : Matches(c, b)

QualifyingSquare(b) == color[b] # unbreakable /\ SameColorSquare(b)

Adjacent(c, d) ==
    \/ c[1] = d[1] /\ (c[2] = d[2] + 1 \/ c[2] = d[2] - 1)
    \/ c[2] = d[2] /\ (c[1] = d[1] + 1 \/ c[1] = d[1] - 1)

RECURSIVE Grow(_, _)
Grow(S, b) ==
    LET T == S \cup {c \in Coords : Matches(c, b) /\ \E d \in S : Adjacent(c, d)}
    IN  IF T = S THEN S ELSE Grow(T, b)

\* the cells of the 4-connected region of b's color that holds placed block b
Region(b) == Grow({coord[b]}, b)

\* no cell of S lies on the first or the last row of the grid
InnerRows(S) == \A c \in S : c[2] >= 1 /\ c[2] <= GridH - 2

OnBorder(c) ==
    c[1] = 0 \/ c[2] = 0 \/ c[1] = GridW - 1 \/ c[2] = GridH - 1

\* the step just taken was clear() on block b, placed before the call
ClearStep(b) == last'.op = "clear" /\ last'.b = b /\ Placed(b)

\* the step removed every block of S from the grid
Gone(S) == \A c \in S : ~InGrid(contents', contents[c])

\* the step removed no block from the grid
NoneRemoved == \A b \in Blocks : InGrid(contents, b) => InGrid(contents', b)

(***************************************************************************)
(* C1: after any sequence of drop, positionAt, slide, clear and destroy,   *)
(* every slot that holds a Block has that Block's coord equal to the slot, *)
(* and no Block is referenced by more than one slot.                       *)
(***************************************************************************)
C1_OccupancyConsistent ==
    /\ \A c \in Coords : contents[c] # Undefined => coord[contents[c]] = c
    /\ \A c, d \in Coords :
          (contents[c] # Undefined /\ contents[c] = contents[d]) => c = d

(***************************************************************************)
(* C2: clear() on a placed block removes at least one block if and only if *)
(* one of the four candidate squares holds four blocks of the triggering   *)
(* block's color and that color is not unbreakable; otherwise the grid is  *)
(* unchanged.                                                              *)
(***************************************************************************)
C2_SquareGate ==
    [][\A b \in Blocks : ClearStep(b) =>
          /\ ~NoneRemoved <=> QualifyingSquare(b)
          /\ ~QualifyingSquare(b) => contents' = contents]_vars

(***************************************************************************)
(* C3, as claimed: clear() on any member of a same-color region of four or *)
(* more blocks that contains a qualifying square removes the whole region. *)
(* Stated for regions off the first and last rows, where no row read of    *)
(* the erase is out of range.                                              *)
(***************************************************************************)
RegionHasSquare(b) ==
    color[b] # unbreakable /\ \E o \in Coords : SquareCells(o) \subseteq Region(b)

C4_UnbreakableImmune ==
    [][last'.op = "clear" =>
          \A b \in Blocks :
             (color[b] = unbreakable /\ InGrid(contents, b)) => InGrid(contents', b)]_vars

(***************************************************************************)
(* C5: clear() on a block placed on a border row or column of the grid     *)
(* completes without raising an error.                                     *)
(***************************************************************************)
C5_BorderNoError ==
    [][\A b \in Blocks :
          (ClearStep(b) /\ OnBorder(coord[b])) => ~last'.err]_vars

(***************************************************************************)
(* C6, as claimed: in every state before a drop animation of a block       *)
(* completes, a slot of the grid holds the block: no animation runs while  *)
(* the block is in no slot.                                                *)
(***************************************************************************)
C6_RegisteredWhileFalling ==
    \A b \in Blocks : tweens[b] > 0 => InGrid(contents, b)

(***************************************************************************)
(* C6, amended: in the state right after drop returns, animated or not,    *)
(* the target slot holds the block and the block's coord is the target,    *)
(* and an animation starts only in a drop call that has done both.         *)
(***************************************************************************)
C6_SynchronousRegistration ==
    [][/\ last'.op = "drop" =>
             (contents'[last'.c] = last'.b /\ coord'[last'.b] = last'.c)
       /\ \A b \in Blocks : tweens'[b] > tweens[b] =>
             /\ last'.op = "drop" /\ last'.b = b
             /\ contents'[last'.c] = b
             /\ coord'[b] = last'.c]_vars

\* an animated drop has just returned
C6_Witness ==
    /\ last.op = "drop"
    /\ tweens[last.b] > 0
    /\ falling[last.b]
    /\ contents[last.c] = last.b
    /\ coord[last.b] = last.c

(***************************************************************************)
(* C7: over any sequence of update calls level never decreases, calcLevel  *)
(* never returns less than the current level, and update(0) leaves the     *)
(* level as it is.                                                         *)
(***************************************************************************)
C7_LevelMonotonic ==
    [][/\ level' >= level
       /\ calcLevel(current', level') >= level'
       /\ clearCount' = <<0>> => level' = level]_vars

\* update(0) has just been called on a level above 0
C7_Witness ==
    /\ clearCount = <<0>>
    /\ level >= 1
    /\ calcLevel(current, level) = level

(***************************************************************************)
(* C8: an update that brings the score to or past checkpoints not reached  *)
(* before sets level to the highest i with score >= checkpoint[i-1] and    *)
(* makes the level transition once; any other update leaves the level and  *)
(* makes no transition.  With exponent 1 at level 0: update(50) gives      *)
(* score 50, level 0, no transition; update(60) then gives score 110,      *)
(* level 1, one transition.                                                *)
(***************************************************************************)
HighestReached(cur) ==
    IF \E i \in 1..NumLevels : cur >= checkpoints[i]
    THEN CHOOSE i \in 1..NumLevels :
            /\ cur >= checkpoints[i]
            /\ \A j \in 1..NumLevels : cur >= checkpoints[j] => j <= i
    ELSE 0

Transitions(eff) ==
    Cardinality({i \in 1..Len(eff) : eff[i].call = "generator.setLevel"})

C8_UpdateTransitions ==
    [][clearCount' # << >> =>
          /\ level' = HighestReached(current')
          /\ HighestReached(current') > level =>
                (Transitions(effects') = 1 /\ effects'[1].n = level')
          /\ HighestReached(current') <= level =>
                (level' = level /\ effects' = << >>)
          /\ (current = 0 /\ level = 0 /\ points[1] = 1 /\ clearCount' = <<50>>) =>
                (current' = 50 /\ level' = 0 /\ effects' = << >>)
          /\ (current = 50 /\ level = 0 /\ points[1] = 1 /\ clearCount' = <<60>>) =>
                (current' = 110 /\ level' = 1 /\ Transitions(effects') = 1)]_vars

\* the scenario's second update has just been made
C8_Witness ==
    /\ clearCount = <<60>>
    /\ current = 110
    /\ level = 1
    /\ Transitions(effects) = 1

(***************************************************************************)
(* C9: a level transition makes these calls, once each and in this order:  *)
(* generator.setLevel(level), music.play("background" + (level + 1)),      *)
(* background.newColor(first color of the level's palette), centerpiece    *)
(* breakable, grid.clearAll, grid.resetMiddle, centerpiece redraw,         *)
(* toCenter, unbreakable.                                                  *)
(***************************************************************************)
TransitionOrder ==
    <<"generator.setLevel", "music.play", "background.newColor",
      "centerQuad.breakable", "grid.clearAll", "grid.resetMiddle",
      "centerQuad.redraw", "centerQuad.toCenter", "centerQuad.unbreakable">>

TrackOfLevel == <<"background2", "background3", "background4">>

C9_TransitionOrder ==
    [][level' # level =>
          /\ Len(effects') = Len(TransitionOrder)
          /\ \A i \in 1..Len(TransitionOrder) : effects'[i].call = TransitionOrder[i]
          /\ effects'[1].n = level'
          /\ effects'[2].s = TrackOfLevel[level']
          /\ effects'[3].n = level'
          /\ effects'[3].s = "config.color.available[level][0]"]_vars

\* a transition that passed two checkpoints at once has just been made
C9_Witness ==
    /\ level = 2
    /\ clearCount = <<250>>
    /\ current < 350
    /\ Len(effects) = 9

(***************************************************************************)
(* C10: a rotate intent is accepted only when the rotating gate is false;  *)
(* accepting it sets the gate and makes one rotation; a rotate intent that *)
(* arrives before the cooldown timer has reset the gate makes none, so two *)
(* rotate intents in one cooldown window make exactly one rotation.        *)
(***************************************************************************)
Rotations(calls) ==
    Cardinality({i \in 1..Len(calls) : Rotation(calls[i])})

C10_RotateGate ==
    [][tick'.seq # tick.seq =>
          /\ Rotations(tick'.calls) <= 1
          /\ Rotations(tick'.calls) = 1 =>
                (~rotating /\ RotateIntent(tick'.keys) /\ rotating')
          /\ (~rotating /\ RotateIntent(tick'.keys)) => Rotations(tick'.calls) = 1
          /\ (rotating /\ RotateIntent(tick'.keys)) =>
                (Rotations(tick'.calls) = 0 /\ rotating')
          /\ winIntents' >= 1 => winRotations' = 1]_vars

\* the second rotate intent of a cooldown window has just been dropped
C10_Witness ==
    /\ rotating
    /\ rotTimers = 1
    /\ RotateIntent(tick.keys)
    /\ Rotations(tick.calls) = 0
    /\ winIntents >= 2
    /\ winRotations = 1

(***************************************************************************)
(* What the claims speak of, stated on one update tick of controls.        *)
(***************************************************************************)
ShiftKeys == {"W", "S", "A", "D"}

\* the step is an update tick
Tick == tick'.seq # tick.seq

\* how many calls of the tick satisfy nothing but their name being in names
CountOf(calls, names) == Cardinality({i \in 1..Len(calls) : calls[i] \in names})

MoveOps ==
    {"generator.rotateCCW", "generator.rotateCW", "grid.slideUp", "grid.slideDown",
     "grid.slideLeft", "grid.slideRight", "generator.drop"}

\* in the state before the tick, a rotate intent of keys passes its gate
RotateAccepted(keys) == RotateIntent(keys) /\ ~rotating

\* in the state before the tick, a shift intent of keys passes its gate
ShiftAdmissible(keys) ==
    keys \cap ShiftKeys # {} /\ ~shifting /\ fallingQuads = 0

(***************************************************************************)
(* C11: a shift intent issued while generator.fallingQuads is not empty is *)
(* rejected: no grid slide is invoked, the shifting gate is not set, no    *)
(* cooldown timer is scheduled, and a tick with shift keys only calls      *)
(* nothing of the grid or the generator but highlightPath.                 *)
(***************************************************************************)
C11_ShiftRejectedWhileFalling ==
    [][(Tick /\ fallingQuads > 0) =>
          /\ \A i \in 1..Len(tick'.calls) : ~Shift(tick'.calls[i])
          /\ shifting' = shifting
          /\ shiftTimers' = shiftTimers
          /\ (tick'.keys # {} /\ tick'.keys \subseteq ShiftKeys) =>
                tick'.calls = <<"generator.highlightPath">>]_vars

\* a shift intent has just been rejected with the gate open and a quad falling
C11_Witness ==
    /\ tick.keys = {"W"}
    /\ fallingQuads > 0
    /\ ~shifting
    /\ shiftTimers = 0
    /\ tick.calls = <<"generator.highlightPath">>

(***************************************************************************)
(* C12: controls.postMove is invoked once for every accepted move intent   *)
(* whose generator or grid operation returns, after that operation, and is *)
(* not invoked in a tick that accepts no intent.                           *)
(***************************************************************************)
C12_PostMoveOnce ==
    [][Tick =>
          LET calls    == tick'.calls
              accepted == \/ RotateAccepted(tick'.keys)
                          \/ ShiftAdmissible(tick'.keys)
                          \/ "SPACEBAR" \in tick'.keys
              posts    == CountOf(calls, {"controls.postMove"})
          IN  /\ CountOf(calls, MoveOps) = (IF accepted THEN 1 ELSE 0)
              /\ posts = (IF accepted /\ ~tick'.thrown THEN 1 ELSE 0)
              /\ posts = 1 =>
                    /\ calls[Len(calls)] = "controls.postMove"
                    /\ \E i \in 1..(Len(calls) - 1) : calls[i] \in MoveOps]_vars

\* a shift has just been accepted and followed by postMove
C12_Witness ==
    tick.calls = <<"generator.highlightPath", "grid.slideUp", "setTimeout",
                   "controls.postMove">>

(***************************************************************************)
(* C13, as claimed: whenever a drop intent is issued in an update tick,    *)
(* generator.drop is invoked, whatever other intents the tick holds.       *)
(***************************************************************************)
C13_DropAlwaysInvoked ==
    [][(Tick /\ "SPACEBAR" \in tick'.keys) =>
          CountOf(tick'.calls, {"generator.drop"}) = 1]_vars

(***************************************************************************)
(* C13, amended: a drop intent has no gate and no cooldown; it results in  *)
(* generator.drop whatever the gates are and whether or not quads fall,    *)
(* exactly when the tick accepts no rotate and no shift intent.            *)
(***************************************************************************)
C13_DropUnlessOtherAccepted ==
    [][(Tick /\ "SPACEBAR" \in tick'.keys) =>
          /\ CountOf(tick'.calls, {"generator.drop"}) =
                (IF RotateAccepted(tick'.keys) \/ ShiftAdmissible(tick'.keys)
                 THEN 0 ELSE 1)
          /\ tick'.keys = {"SPACEBAR"} => CountOf(tick'.calls, {"generator.drop"}) = 1]_vars

\* a drop has just been invoked with both gates closed and a quad falling
C13_Witness ==
    /\ rotating
    /\ shifting
    /\ fallingQuads > 0
    /\ tick.keys = {"SPACEBAR", "W"}
    /\ CountOf(tick.calls, {"generator.drop"}) = 1

(***************************************************************************)
(* What C14 speaks of: a slide call on a block that has a coord.           *)
(***************************************************************************)
SlideStep(b) == last'.op = "slide" /\ last'.b = b /\ coord[b] # NoCoord

\* the step moved block b, and no other block, by <<dx, dy>> without an error
MovedBy(b, dx, dy) ==
    /\ ~last'.err
    /\ coord' = [coord EXCEPT ![b] = <<coord[b][1] + dx, coord[b][2] + dy>>]

\* the step raised an error and left every coord and the grid as they were
Refused == last'.err /\ coord' = coord /\ contents' = contents

FourDirections == {"top", "bottom", "left", "right"}

(***************************************************************************)
(* C14, as claimed: slide(direction) moves the block's coord by one cell   *)
(* on one axis (top: y-1, bottom: y+1, left: x-1, right: x+1), and for any *)
(* direction value outside {top, bottom, left, right} it fails and leaves  *)
(* the coord and the grid unchanged.                                       *)
(***************************************************************************)
C14_SlideExactNames ==
    [][\A b \in Blocks : SlideStep(b) =>
          /\ last'.d = "top" => MovedBy(b, 0, -1)
          /\ last'.d = "bottom" => MovedBy(b, 0, 1)
          /\ last'.d = "left" => MovedBy(b, -1, 0)
          /\ last'.d = "right" => MovedBy(b, 1, 0)
          /\ last'.d \notin FourDirections => Refused]_vars

(***************************************************************************)
(* C14, amended: the direction is read without regard to letter case; a    *)
(* direction whose lower-case form is top, bottom, left or right moves the *)
(* coord by one cell on that axis, and any other string fails and leaves   *)
(* the coord and the grid unchanged.                                       *)
(***************************************************************************)
C14_SlideAnyCase ==
    [][\A b \in Blocks : SlideStep(b) =>
          /\ toLowerCase(last'.d) = "top" => MovedBy(b, 0, -1)
          /\ toLowerCase(last'.d) = "bottom" => MovedBy(b, 0, 1)
          /\ toLowerCase(last'.d) = "left" => MovedBy(b, -1, 0)
          /\ toLowerCase(last'.d) = "right" => MovedBy(b, 1, 0)
          /\ toLowerCase(last'.d) \notin FourDirections => Refused
          /\ contents' = contents]_vars

\* slide("LEFT") has just moved a dropped block one cell to the left
C14_Witness ==
    /\ last.op = "slide"
    /\ last.d = "LEFT"
    /\ ~last.err
    /\ \E c \in Coords :
          contents[c] = last.b /\ coord[last.b] = <<c[1] - 1, c[2]>>

(***************************************************************************)
(* C15: clear() on a Block that has no coord (never dropped) ends in an    *)
(* error and leaves every grid slot unchanged.                             *)
(***************************************************************************)
C15_UnplacedClearFails ==
    [][\A b \in Blocks :
          (last'.op = "clear" /\ last'.b = b /\ coord[b] = NoCoord) =>
             /\ last'.err
             /\ last'.destroyed = << >>
             /\ contents' = contents]_vars

\* clear() has just failed on a block with no coord, beside an occupied grid
C15_Witness ==
    /\ last.op = "clear"
    /\ last.err
    /\ coord[last.b] = NoCoord
    /\ \E c \in Coords : contents[c] # Undefined

(***************************************************************************)
(* What C16 speaks of: a block whose drop tween has started and whose      *)
(* completion callback has not run.                                        *)
(***************************************************************************)
StillFalling(a) == falling[a] /\ tweens[a] > 0

\* a square around block b whose corners, b apart, are all settled blocks
\* of b's color
SettledSquare(b) ==
    \E o \in CandidateSquares(b) : \A c \in SquareCells(o) :
       Matches(c, b) /\ (contents[c] = b \/ ~StillFalling(contents[c]))

(***************************************************************************)
(* C16: a clear() triggered by the completion of one block's drop neither  *)
(* destroys a block that is still falling nor counts it as a corner of a   *)
(* matching square.                                                        *)
(***************************************************************************)
C16_FallingNotEvaluated ==
    [][last'.op = "onComplete" =>
          /\ \A a \in Blocks :
                (a # last'.b /\ StillFalling(a) /\ InGrid(contents, a)) =>
                   InGrid(contents', a)
          /\ last'.destroyed # << >> => SettledSquare(last'.b)]_vars

(***************************************************************************)
(* C17: clear() on a block that is a corner of a matching square removes   *)
(* from the grid exactly the 4-connected component of blocks of its color  *)
(* that holds it; every other slot keeps its block and every block keeps   *)
(* its coord.                                                              *)
(***************************************************************************)
C17_ExactComponent ==
    [][\A b \in Blocks : (ClearStep(b) /\ QualifyingSquare(b)) =>
          /\ \A c \in Coords :
                contents'[c] = (IF c \in Region(b) THEN Undefined ELSE contents[c])
          /\ coord' = coord]_vars

(***************************************************************************)
(* C18: the erase of one clear() ends within the call; it destroys no      *)
(* Block twice, every destroyed Block has left its slot at once, so that   *)
(* eraseBlocks is never called again on a destroyed Block; only slots of   *)
(* destroyed Blocks change; and when clear() returns, no block of the      *)
(* triggering color is left beside a destroyed one.                        *)
(***************************************************************************)
C18_EraseOnce ==
    [][last'.op = "clear" =>
          LET ds == last'.destroyed
          IN  /\ \A i, j \in 1..Len(ds) : ds[i] = ds[j] => i = j
              /\ last'.revisits = 0
              /\ \A i \in 1..Len(ds) : ~InGrid(contents', ds[i])
              /\ \A c \in Coords : contents'[c] # contents[c] =>
                    /\ contents'[c] = Undefined
                    /\ \E i \in 1..Len(ds) : ds[i] = contents[c]
              /\ (~last'.err /\ ds # << >>) =>
                    \A i \in 1..Len(ds), c \in Coords :
                       Adjacent(c, coord[ds[i]]) =>
                          ~(contents'[c] # Undefined
                            /\ color[contents'[c]] = color[last'.b])
              /\ UNCHANGED <<coord, color, tweens, falling>>]_vars

\* a clear() has just returned after erasing a square
C18_Witness ==
    /\ last.op = "clear"
    /\ ~last.err
    /\ Len(last.destroyed) = 4
    /\ last.revisits = 0
    /\ \A i \in 1..4 : ~InGrid(contents, last.destroyed[i])

(***************************************************************************)
(* C19: when an animated drop completes, the callbacks of onDropComplete   *)
(* run once each in registration order, the block's own clear() first;     *)
(* every callback of a caller sees the grid as the clear check left it,    *)
(* and the block's falling flag is false when the callbacks run.           *)
(***************************************************************************)
C19_CallbacksInOrder ==
    [][last'.op = "onComplete" =>
          LET cbs == onDropComplete[last'.b]
              ran == last'.ran
          IN  /\ Len(ran) = Len(cbs)
              /\ \A i \in 1..Len(ran) : ran[i].cb = cbs[i] /\ ~ran[i].falling
              /\ ran[1].cb = "clear"
              /\ \A i \in 2..Len(ran) : ran[i].seen = contents']_vars

(***************************************************************************)
(* C20: when the gated operations return, each gate is true exactly when   *)
(* one cooldown timer of it is pending and never more than one is; a shift *)
(* in any direction is accepted only with the shifting gate false and sets *)
(* it, so one window holds one shift; a step that changes one gate or its  *)
(* timer leaves the other gate and its timer alone; and a gate that is     *)
(* true becomes false again.                                               *)
(***************************************************************************)
ShiftOps == {"grid.slideUp", "grid.slideDown", "grid.slideLeft", "grid.slideRight"}

GateHasTimer ==
    /\ rotTimers \in {0, 1}
    /\ shiftTimers \in {0, 1}
    /\ rotating <=> rotTimers = 1
    /\ shifting <=> shiftTimers = 1

OneShiftPerWindow ==
    Tick =>
       /\ CountOf(tick'.calls, ShiftOps) <= 1
       /\ CountOf(tick'.calls, ShiftOps) = 1 => (~shifting /\ shifting')
       /\ shifting => (CountOf(tick'.calls, ShiftOps) = 0 /\ shifting')

GatesApart ==
    /\ <<rotating, rotTimers>>' # <<rotating, rotTimers>> =>
          UNCHANGED <<shifting, shiftTimers>>
    /\ <<shifting, shiftTimers>>' # <<shifting, shiftTimers>> =>
          UNCHANGED <<rotating, rotTimers>>
    /\ (Tick /\ RotateIntent(tick'.keys)) =>
          (CountOf(tick'.calls, {"generator.rotateCCW", "generator.rotateCW"}) = 1
             <=> ~rotating)

C20_GatesAndTimers ==
    /\ []GateHasTimer
    /\ [][OneShiftPerWindow /\ GatesApart]_vars
    /\ rotating ~> ~rotating
    /\ shifting ~> ~shifting

\* both gates are closed at once, each with its own timer pending
C20_Witness ==
    /\ rotating
    /\ shifting
    /\ rotTimers = 1
    /\ shiftTimers = 1

====
